---------------------------- MODULE Spec2Model ----------------------------
(***************************************************************************)
(* A model of core/data_stream.py: the DataStream block interface, the     *)
(* in-memory ListDataStream and the file-backed TextFileDataStream, used   *)
(* through Python's with statement.                                        *)
(*                                                                         *)
(* One stream instance is modelled at a time.  Its backend is `kind`.  A   *)
(* new instance over the same list object / the same path is made by       *)
(* Construct.  The caller uses plain (non-nested) with statements: a scope *)
(* is entered on an instance that is not inside its scope already.         *)
(* Python's None is the string "None": a None stored in a list and the     *)
(* None that get_symbol returns at the end are the same value, as in the   *)
(* source.  The file is a sequence of characters; "CR" and "LF" stand for  *)
(* '\r' and '\n', and the handle is a text-mode handle opened without a    *)
(* newline argument, so reads translate newlines (universal newlines).     *)
(* open() takes any mode string.  Instances are constructed with the       *)
(* read-only, the write-only or the append mode ("r", "w", "a"); the       *)
(* round-trip scenario alone uses "w+", in the one order (writes, seek(0), *)
(* reads) this model of the handle's position covers for a mixed mode.     *)
(***************************************************************************)
EXTENDS Naturals, Sequences, FiniteSets, TLC

VARIABLES
    kind,          \* the class: "list", "text" or "uint8" (Uint8FileDataStream)
    scope,         \* the caller's place around the with statement
    input_list,    \* ListDataStream.input_list (the caller's list, in place)
    current_ind,   \* ListDataStream.current_ind
    permissions,   \* FileDataStream.permissions
    file_exists,   \* whether file_path names an existing file
    file_data,     \* the characters of the file at file_path
    file_obj,      \* FileDataStream.file_obj: [st, pos]
    open_handles,  \* handles of the process that are open on file_path
    ret,           \* the outcome of the last call, as its caller sees it
    pc,            \* position of a test scenario ("free": no scenario)
    data_gt,       \* the scenario's block of symbols to write
    out            \* the scenario's symbols read back, in order

streamVars == <<kind, scope, input_list, current_ind, permissions,
                file_exists, file_data, file_obj, open_handles, ret>>
driverVars == <<pc, data_gt, out>>
vars == <<kind, scope, input_list, current_ind, permissions, file_exists,
          file_data, file_obj, open_handles, ret, pc, data_gt, out>>

---------------------------------------------------------------------------
(* Bounds of the model *)
MaxLen == 3
MaxBlockSize == 4

---------------------------------------------------------------------------
(* Values *)
NoneVal == "None"
CR == "CR"
LF == "LF"
Chars == {"a", CR, LF}
ListSymbols == {NoneVal, "a", "b"}
Symbols(k) == IF k = "list" THEN ListSymbols ELSE Chars
Perms == {"r", "w", "a"}
Readable(p) == p \in {"r", "w+"}
Writable(p) == p \in {"w", "a", "w+"}
NoErr == "none"
BlockSizes == 0..MaxBlockSize

RECURSIVE SeqsUpTo(_, _)
SeqsUpTo(S, n) ==
    IF n = 0 THEN {<< >>}
    ELSE LET shorter == SeqsUpTo(S, n - 1)
         IN  shorter \cup {Append(q, x) : q \in {t \in shorter : Len(t) = n - 1}, x \in S}

Min(a, b) == IF a < b THEN a ELSE b
Prefix(q, n) == SubSeq(q, 1, Min(n, Len(q)))

NoHandle == [st |-> "unset", pos |-> 0]
NoRet == [op |-> "init", n |-> 0, kind |-> "ok", sym |-> NoneVal, blk |-> << >>,
          calls |-> 0, err |-> NoErr, src |-> "none"]
Result(op, n, k, sym, blk, calls, err) ==
    [op |-> op, n |-> n, kind |-> k, sym |-> sym, blk |-> blk,
     calls |-> calls, err |-> err, src |-> "none"]

(* The part of the state the symbol primitives read and write. *)
BS == [k |-> kind, list |-> input_list, ind |-> current_ind,
       data |-> file_data, pos |-> file_obj.pos, st |-> file_obj.st,
       perm |-> permissions]
Cursor(bs) == IF bs.k = "list" THEN bs.ind ELSE bs.pos
Backing(bs) == IF bs.k = "list" THEN bs.list ELSE bs.data

---------------------------------------------------------------------------
(* The file object: what open/read/write/seek/close of a text handle do *)

(* why a call on self.file_obj fails before it touches the file *)
HandleError(bs, need) ==
    IF bs.st = "unset" THEN "AttributeError"
    ELSE IF bs.st = "closed" THEN "ValueError"
    ELSE IF need = "read" /\ ~Readable(bs.perm) THEN "UnsupportedOperation"
    ELSE IF need = "write" /\ ~Writable(bs.perm) THEN "UnsupportedOperation"
    ELSE NoErr

(* file_obj.read(1): one character, newlines translated; "" at the end *)
file_read1(bs) ==
    IF bs.pos >= Len(bs.data) THEN [bs |-> bs, s |-> ""]
    ELSE LET c == bs.data[bs.pos + 1]
         IN  IF c = CR
             THEN IF bs.pos + 1 < Len(bs.data) /\ bs.data[bs.pos + 2] = LF
                  THEN [bs |-> [bs EXCEPT !.pos = @ + 2], s |-> LF]
                  ELSE [bs |-> [bs EXCEPT !.pos = @ + 1], s |-> LF]
             ELSE [bs |-> [bs EXCEPT !.pos = @ + 1], s |-> c]

(* file_obj.write(s): at the end in append mode, at the position otherwise *)
file_write(bs, s) ==
    IF bs.perm = "a" \/ bs.pos >= Len(bs.data)
    THEN [bs EXCEPT !.data = Append(bs.data, s), !.pos = Len(bs.data) + 1]
    ELSE [bs EXCEPT !.data = [bs.data EXCEPT ![bs.pos + 1] = s], !.pos = @ + 1]

---------------------------------------------------------------------------
(* The symbol primitives *)

(* a get_symbol that moves the cursor also when the list is exhausted *)
ListDataStream_get_symbol_always_advancing(bs) ==
    IF bs.ind >= Len(bs.list)
    THEN [bs |-> [bs EXCEPT !.ind = @ + 1], sym |-> NoneVal, err |-> NoErr]
    ELSE [bs |-> [bs EXCEPT !.ind = @ + 1], sym |-> bs.list[bs.ind + 1], err |-> NoErr]

ListDataStream_get_symbol(bs) ==
    IF bs.ind >= Len(bs.list)
    THEN [bs |-> bs, sym |-> NoneVal, err |-> NoErr]
    ELSE [bs |-> [bs EXCEPT !.ind = @ + 1], sym |-> bs.list[bs.ind + 1], err |-> NoErr]

(* a write that stores at the cursor instead of appending *)
ListDataStream_write_symbol_at_cursor(bs, s) ==
    IF bs.ind < Len(bs.list)
    THEN [bs |-> [bs EXCEPT !.list = [bs.list EXCEPT ![bs.ind + 1] = s]], err |-> NoErr]
    ELSE [bs |-> [bs EXCEPT !.list = Append(bs.list, s)], err |-> NoErr]

ListDataStream_write_symbol(bs, s) ==
    [bs |-> [bs EXCEPT !.list = Append(bs.list, s)], err |-> NoErr]

(* a reset that steps back one symbol instead of rewinding *)
ListDataStream_reset_one_back(bs) ==
    [bs |-> [bs EXCEPT !.ind = IF @ > 0 THEN @ - 1 ELSE 0], err |-> NoErr]

ListDataStream_reset(bs) ==
    [bs |-> [bs EXCEPT !.ind = 0], err |-> NoErr]

(* a get_symbol that answers None when the handle cannot be read *)
TextFileDataStream_get_symbol_swallow(bs) ==
    IF HandleError(bs, "read") # NoErr
    THEN [bs |-> bs, sym |-> NoneVal, err |-> NoErr]
    ELSE LET r == file_read1(bs)
         IN  IF r.s = "" THEN [bs |-> r.bs, sym |-> NoneVal, err |-> NoErr]
             ELSE [bs |-> r.bs, sym |-> r.s, err |-> NoErr]

TextFileDataStream_get_symbol(bs) ==
    IF HandleError(bs, "read") # NoErr
    THEN [bs |-> bs, sym |-> NoneVal, err |-> HandleError(bs, "read")]
    ELSE LET r == file_read1(bs)
         IN  IF r.s = "" THEN [bs |-> r.bs, sym |-> NoneVal, err |-> NoErr]
             ELSE [bs |-> r.bs, sym |-> r.s, err |-> NoErr]

(* oserr: the operating system refuses this write *)
TextFileDataStream_write_symbol(bs, s, oserr) ==
    IF HandleError(bs, "write") # NoErr
    THEN [bs |-> bs, err |-> HandleError(bs, "write")]
    ELSE IF oserr THEN [bs |-> bs, err |-> "OSError"]
    ELSE [bs |-> file_write(bs, s), err |-> NoErr]

(* a reset that reopens a handle that is closed *)
FileDataStream_reset_reopen(bs) ==
    IF bs.st = "unset" THEN [bs |-> bs, err |-> "AttributeError"]
    ELSE [bs |-> [bs EXCEPT !.pos = 0, !.st = "open"], err |-> NoErr]

(* a reset that rewinds by opening the file anew, which empties it in write *)
(* mode                                                                     *)
FileDataStream_reset_by_reopening(bs) ==
    IF HandleError(bs, "seek") # NoErr
    THEN [bs |-> bs, err |-> HandleError(bs, "seek")]
    ELSE [bs |-> [bs EXCEPT !.pos = 0,
                            !.data = IF bs.perm = "w" THEN << >> ELSE @],
          err |-> NoErr]

FileDataStream_reset(bs) ==
    IF HandleError(bs, "seek") # NoErr
    THEN [bs |-> bs, err |-> HandleError(bs, "seek")]
    ELSE [bs |-> [bs EXCEPT !.pos = 0], err |-> NoErr]

get_symbol(bs) ==
    IF bs.k = "list" THEN ListDataStream_get_symbol(bs)
    ELSE TextFileDataStream_get_symbol(bs)

write_symbol(bs, s, oserr) ==
    IF bs.k = "list" THEN ListDataStream_write_symbol(bs, s)
    ELSE TextFileDataStream_write_symbol(bs, s, oserr)

reset(bs) ==
    IF bs.k = "list" THEN ListDataStream_reset(bs) ELSE FileDataStream_reset(bs)

---------------------------------------------------------------------------
(* The block operations of DataStream *)

(* the for loop of get_block with `left` iterations to go *)
RECURSIVE get_block_loop(_, _, _, _)
get_block_loop(bs, left, data_list, calls) ==
    IF left = 0
    THEN [bs |-> bs, data_list |-> data_list, calls |-> calls, err |-> NoErr]
    ELSE LET g == get_symbol(bs)
         IN  IF g.err # NoErr
             THEN [bs |-> g.bs, data_list |-> data_list, calls |-> calls + 1, err |-> g.err]
             ELSE IF g.sym = NoneVal
             THEN [bs |-> g.bs, data_list |-> data_list, calls |-> calls + 1, err |-> NoErr]
             ELSE get_block_loop(g.bs, left - 1, Append(data_list, g.sym), calls + 1)

(* a get_block without the test for an empty data_list *)
get_block_no_empty_test(bs, block_size) ==
    LET l == get_block_loop(bs, block_size, << >>, 0)
    IN  IF l.err # NoErr
        THEN [bs |-> l.bs, kind |-> "raise", blk |-> << >>, calls |-> l.calls, err |-> l.err]
        ELSE [bs |-> l.bs, kind |-> "block", blk |-> l.data_list, calls |-> l.calls, err |-> NoErr]

get_block(bs, block_size) ==
    LET l == get_block_loop(bs, block_size, << >>, 0)
    IN  IF l.err # NoErr
        THEN [bs |-> l.bs, kind |-> "raise", blk |-> << >>, calls |-> l.calls, err |-> l.err]
        ELSE IF l.data_list = << >>
        THEN [bs |-> l.bs, kind |-> "none", blk |-> << >>, calls |-> l.calls, err |-> NoErr]
        ELSE [bs |-> l.bs, kind |-> "block", blk |-> l.data_list, calls |-> l.calls, err |-> NoErr]

(* the for loop of write_block from symbol i on; the write of symbol failAt *)
(* is refused by the operating system (0: none is)                          *)
RECURSIVE write_block_loop(_, _, _, _)
write_block_loop(bs, data_list, i, failAt) ==
    IF i > Len(data_list)
    THEN [bs |-> bs, done |-> Len(data_list), calls |-> Len(data_list), err |-> NoErr]
    ELSE LET w == write_symbol(bs, data_list[i], i = failAt)
         IN  IF w.err # NoErr
             THEN [bs |-> w.bs, done |-> i - 1, calls |-> i, err |-> w.err]
             ELSE write_block_loop(w.bs, data_list, i + 1, failAt)

(* a write_block that takes back the symbols written when a write fails *)
write_block_rollback(bs, data_list, failAt) ==
    LET w == write_block_loop(bs, data_list, 1, failAt)
    IN  IF w.err # NoErr THEN [w EXCEPT !.bs = bs] ELSE w

write_block(bs, data_list, failAt) == write_block_loop(bs, data_list, 1, failAt)

---------------------------------------------------------------------------
(* The calls a caller makes on the instance.  None of them looks at the    *)
(* caller's place around the with statement: the source keeps no such      *)
(* state, so every call is modelled in every place.                       *)

Commit(bs) ==
    /\ input_list' = bs.list
    /\ current_ind' = bs.ind
    /\ file_data' = bs.data
    /\ file_obj' = [st |-> bs.st, pos |-> bs.pos]

Fits(k) == Len(Backing(BS)) + k <= MaxLen

Call_get_symbol ==
    LET g == get_symbol(BS)
    IN  /\ Commit(g.bs)
        /\ ret' = Result("get_symbol", 0, IF g.err # NoErr THEN "raise" ELSE "sym",
                         g.sym, << >>, 1, g.err)
        /\ UNCHANGED <<kind, scope, permissions, file_exists, open_handles>>

Call_write_symbol(s, oserr) ==
    LET w == write_symbol(BS, s, oserr)
    IN  /\ Fits(1)
        /\ kind = "list" => ~oserr
        /\ Commit(w.bs)
        /\ ret' = Result("write_symbol", 0, IF w.err # NoErr THEN "raise" ELSE "ok",
                         s, << >>, 0, w.err)
        /\ UNCHANGED <<kind, scope, permissions, file_exists, open_handles>>

Call_get_block(block_size) ==
    LET g == get_block(BS, block_size)
    IN  /\ Commit(g.bs)
        /\ ret' = Result("get_block", block_size, g.kind, NoneVal, g.blk, g.calls, g.err)
        /\ UNCHANGED <<kind, scope, permissions, file_exists, open_handles>>

Call_write_block(data_list, failAt) ==
    LET w == write_block(BS, data_list, failAt)
    IN  /\ Fits(Len(data_list))
        /\ kind = "list" => failAt = 0
        /\ Commit(w.bs)
        /\ ret' = Result("write_block", w.done, IF w.err # NoErr THEN "raise" ELSE "ok",
                         NoneVal, data_list, w.calls, w.err)
        /\ UNCHANGED <<kind, scope, permissions, file_exists, open_handles>>

Call_reset ==
    LET r == reset(BS)
    IN  /\ Commit(r.bs)
        /\ ret' = Result("reset", 0, IF r.err # NoErr THEN "raise" ELSE "ok",
                         NoneVal, << >>, 0, r.err)
        /\ UNCHANGED <<kind, scope, permissions, file_exists, open_handles>>

(* an open that accepts the read and the write mode only *)
OpenError_read_or_write_only(oserr) ==
    IF permissions \notin {"r", "w"} THEN "ValueError"
    ELSE IF permissions = "r" /\ ~file_exists THEN "FileNotFoundError"
    ELSE IF oserr THEN "OSError"
    ELSE NoErr

(* open(self.file_path, self.permissions) *)
OpenError(oserr) ==
    IF permissions = "r" /\ ~file_exists THEN "FileNotFoundError"
    ELSE IF oserr THEN "OSError"
    ELSE NoErr

(* an __enter__ that also resets a ListDataStream *)
Call_enter_resetting(oserr) ==
    /\ scope # "Open"
    /\ kind = "list" => ~oserr
    /\ IF kind = "list"
       THEN /\ scope' = "Open"
            /\ current_ind' = 0
            /\ ret' = Result("enter", 0, "ok", NoneVal, << >>, 0, NoErr)
            /\ UNCHANGED <<file_exists, file_data, file_obj, open_handles>>
       ELSE IF OpenError(oserr) # NoErr
       THEN /\ ret' = Result("enter", 0, "raise", NoneVal, << >>, 0, OpenError(oserr))
            /\ UNCHANGED <<scope, current_ind, file_exists, file_data, file_obj,
                           open_handles>>
       ELSE /\ scope' = "Open"
            /\ file_exists' = TRUE
            /\ file_data' = IF permissions \in {"w", "w+"} THEN << >> ELSE file_data
            /\ file_obj' = [st |-> "open",
                            pos |-> IF permissions = "a" THEN Len(file_data) ELSE 0]
            /\ open_handles' = open_handles + 1
            /\ ret' = Result("enter", 0, "ok", NoneVal, << >>, 0, NoErr)
            /\ UNCHANGED current_ind
    /\ UNCHANGED <<kind, input_list, permissions>>

(* with stream as ds: the call of __enter__.  When it raises, the scope is *)
(* not entered and __exit__ is not called.                                 *)
Call_enter(oserr) ==
    /\ scope # "Open"
    /\ kind = "list" => ~oserr
    /\ IF kind = "list"
       THEN /\ scope' = "Open"
            /\ ret' = Result("enter", 0, "ok", NoneVal, << >>, 0, NoErr)
            /\ UNCHANGED <<file_exists, file_data, file_obj, open_handles>>
       ELSE IF OpenError(oserr) # NoErr
       THEN /\ ret' = Result("enter", 0, "raise", NoneVal, << >>, 0, OpenError(oserr))
            /\ UNCHANGED <<scope, file_exists, file_data, file_obj, open_handles>>
       ELSE /\ scope' = "Open"
            /\ file_exists' = TRUE
            /\ file_data' = IF permissions \in {"w", "w+"} THEN << >> ELSE file_data
            /\ file_obj' = [st |-> "open",
                            pos |-> IF permissions = "a" THEN Len(file_data) ELSE 0]
            /\ open_handles' = open_handles + 1
            /\ ret' = Result("enter", 0, "ok", NoneVal, << >>, 0, NoErr)
    /\ UNCHANGED <<kind, input_list, current_ind, permissions>>

(* an __exit__ that closes the file only when no exception is in flight *)
Call_exit_normal_only ==
    /\ scope = "Open"
    /\ scope' = "Closed"
    /\ IF kind = "text" /\ file_obj.st = "open" /\ ret.kind # "raise"
       THEN /\ file_obj' = [file_obj EXCEPT !.st = "closed"]
            /\ open_handles' = open_handles - 1
       ELSE UNCHANGED <<file_obj, open_handles>>
    /\ ret' = IF ret.kind = "raise"
              THEN [ret EXCEPT !.op = "exit", !.kind = "ok", !.src = ret.op]
              ELSE Result("exit", 0, "ok", NoneVal, << >>, 0, NoErr)
    /\ UNCHANGED <<kind, input_list, current_ind, permissions, file_exists, file_data>>

(* the end of the with block, reached normally or by an exception of the   *)
(* last call: the call of __exit__.  Its result keeps the exception in     *)
(* flight (exc_type, exc_value): err, and in src, n, blk the call that     *)
(* raised it                                                               *)
Call_exit ==
    /\ scope = "Open"
    /\ scope' = "Closed"
    /\ IF kind = "text" /\ file_obj.st = "open"
       THEN /\ file_obj' = [file_obj EXCEPT !.st = "closed"]
            /\ open_handles' = open_handles - 1
       ELSE UNCHANGED <<file_obj, open_handles>>
    /\ ret' = IF ret.kind = "raise"
              THEN [ret EXCEPT !.op = "exit", !.kind = "ok", !.src = ret.op]
              ELSE Result("exit", 0, "ok", NoneVal, << >>, 0, NoErr)
    /\ UNCHANGED <<kind, input_list, current_ind, permissions, file_exists, file_data>>

(* every class instantiates *)
Instantiable_all(k) == TRUE

(* abc.ABC: a class that leaves an abstract method unimplemented cannot be  *)
(* instantiated.  Uint8FileDataStream ("uint8") implements neither          *)
(* get_symbol nor write_symbol.                                             *)
Instantiable(k) == k # "uint8"

NotInstantiated == Result("construct", 0, "raise", NoneVal, << >>, 0, "TypeError")

(* the caller holds an instance of the class it uses *)
HasInstance == scope # "NoInstance"

(* a new instance over the same list object / the same path; the call       *)
(* raises TypeError and leaves no instance when the class is abstract       *)
Call_construct(p) ==
    /\ scope # "Open"
    /\ IF ~Instantiable(kind)
       THEN /\ ret' = NotInstantiated
            /\ UNCHANGED <<scope, current_ind, permissions, file_obj>>
       ELSE /\ scope' = "Unopened"
            /\ IF kind = "list"
               THEN /\ p = permissions
                    /\ current_ind' = 0
                    /\ UNCHANGED <<permissions, file_obj>>
               ELSE /\ permissions' = p
                    /\ file_obj' = NoHandle
                    /\ UNCHANGED current_ind
            /\ ret' = Result("construct", 0, "ok", NoneVal, << >>, 0, NoErr)
    /\ UNCHANGED <<kind, input_list, file_exists, file_data, open_handles>>

---------------------------------------------------------------------------
(* The stream under arbitrary use *)

Init ==
    /\ kind \in {"list", "text", "uint8"}
    /\ scope = IF Instantiable(kind) THEN "Unopened" ELSE "NoInstance"
    /\ current_ind = 0
    /\ file_obj = NoHandle
    /\ open_handles = 0
    /\ ret = IF Instantiable(kind) THEN NoRet ELSE NotInstantiated
    /\ IF kind = "list"
       THEN /\ input_list \in SeqsUpTo(ListSymbols, MaxLen)
            /\ permissions = "r"
            /\ file_exists = FALSE
            /\ file_data = << >>
       ELSE /\ input_list = << >>
            /\ permissions \in IF Instantiable(kind) THEN Perms ELSE {"r"}
            /\ file_exists \in BOOLEAN
            /\ file_data \in IF file_exists THEN SeqsUpTo(Chars, MaxLen) ELSE {<< >>}
    /\ pc = "free"
    /\ data_gt = << >>
    /\ out = << >>

Construct == \E p \in Perms : Call_construct(p) /\ UNCHANGED driverVars
Enter == \E oserr \in BOOLEAN : HasInstance /\ Call_enter(oserr) /\ UNCHANGED driverVars
Exit == HasInstance /\ Call_exit /\ UNCHANGED driverVars
GetSymbol == HasInstance /\ Call_get_symbol /\ UNCHANGED driverVars
WriteSymbol ==
    \E s \in Symbols(kind), oserr \in BOOLEAN :
        HasInstance /\ Call_write_symbol(s, oserr) /\ UNCHANGED driverVars
GetBlock == \E n \in BlockSizes : HasInstance /\ Call_get_block(n) /\ UNCHANGED driverVars
WriteBlock ==
    \E b \in SeqsUpTo(Symbols(kind), MaxLen), failAt \in 0..MaxLen :
        /\ HasInstance
        /\ failAt <= Len(b)
        /\ Call_write_block(b, failAt)
        /\ UNCHANGED driverVars
Reset == HasInstance /\ Call_reset /\ UNCHANGED driverVars

Next ==
    \/ Construct
    \/ Enter
    \/ Exit
    \/ GetSymbol
    \/ WriteSymbol
    \/ GetBlock
    \/ WriteBlock
    \/ Reset

Spec == Init /\ [][Next]_vars

---------------------------------------------------------------------------
(* Scenarios: the module's two tests, over every input within the bounds.  *)
(* No call of a scenario is refused by the operating system.               *)

FreshStream ==
    /\ scope = "Unopened"
    /\ current_ind = 0
    /\ file_obj = NoHandle
    /\ open_handles = 0
    /\ ret = NoRet
    /\ out = << >>

AnyFile ==
    /\ file_exists \in BOOLEAN
    /\ file_data \in IF file_exists THEN SeqsUpTo(Chars, MaxLen) ELSE {<< >>}

NoFile ==
    /\ permissions = "r"
    /\ file_exists = FALSE
    /\ file_data = << >>

(* Write a block, reset, read everything back block by block, in one scope: *)
(* on a new empty list, or on a file opened with "w+".                      *)
InitRoundTrip ==
    /\ FreshStream
    /\ kind \in {"list", "text"}
    /\ input_list = << >>
    /\ IF kind = "list" THEN NoFile ELSE permissions = "w+" /\ AnyFile
    /\ data_gt \in SeqsUpTo(Symbols(kind), MaxLen)
    /\ pc = "enter"

RT_Enter ==
    /\ pc = "enter"
    /\ Call_enter(FALSE)
    /\ pc' = "write"
    /\ UNCHANGED <<data_gt, out>>

RT_Write ==
    /\ pc = "write"
    /\ Call_write_block(data_gt, 0)
    /\ pc' = "reset"
    /\ UNCHANGED <<data_gt, out>>

RT_Reset ==
    /\ pc = "reset"
    /\ Call_reset
    /\ pc' = "read"
    /\ UNCHANGED <<data_gt, out>>

(* block = ds.get_block(n) until block is None *)
RT_Read ==
    /\ pc = "read"
    /\ \E n \in 1..MaxBlockSize : Call_get_block(n)
    /\ out' = out \o ret'.blk
    /\ pc' = IF ret'.kind = "block" THEN "read" ELSE "done"
    /\ UNCHANGED data_gt

RT_Exit ==
    /\ pc = "done"
    /\ Call_exit
    /\ pc' = "exited"
    /\ UNCHANGED <<data_gt, out>>

NextRoundTrip ==
    \/ RT_Enter
    \/ RT_Write
    \/ RT_Reset
    \/ RT_Read
    \/ RT_Exit

SpecRoundTrip == InitRoundTrip /\ [][NextRoundTrip]_vars

(* test_file_data_stream: write a block in a "w" scope, then read one block *)
(* in an "r" scope of a new instance on the same path.                      *)
InitReopen ==
    /\ FreshStream
    /\ kind = "text"
    /\ input_list = << >>
    /\ permissions = "w"
    /\ AnyFile
    /\ data_gt \in SeqsUpTo(Chars, MaxLen)
    /\ pc = "w_enter"

RO_EnterW ==
    /\ pc = "w_enter"
    /\ Call_enter(FALSE)
    /\ pc' = "w_write"
    /\ UNCHANGED <<data_gt, out>>

RO_Write ==
    /\ pc = "w_write"
    /\ Call_write_block(data_gt, 0)
    /\ pc' = "w_exit"
    /\ UNCHANGED <<data_gt, out>>

RO_ExitW ==
    /\ pc = "w_exit"
    /\ Call_exit
    /\ pc' = "r_new"
    /\ UNCHANGED <<data_gt, out>>

RO_Construct ==
    /\ pc = "r_new"
    /\ Call_construct("r")
    /\ pc' = "r_enter"
    /\ UNCHANGED <<data_gt, out>>

RO_EnterR ==
    /\ pc = "r_enter"
    /\ Call_enter(FALSE)
    /\ pc' = "r_read"
    /\ UNCHANGED <<data_gt, out>>

RO_Read ==
    /\ pc = "r_read"
    /\ \E n \in 1..MaxBlockSize : Call_get_block(n)
    /\ out' = ret'.blk
    /\ pc' = "r_exit"
    /\ UNCHANGED data_gt

RO_ExitR ==
    /\ pc = "r_exit"
    /\ Call_exit
    /\ pc' = "done"
    /\ UNCHANGED <<data_gt, out>>

NextReopen ==
    \/ RO_EnterW
    \/ RO_Write
    \/ RO_ExitW
    \/ RO_Construct
    \/ RO_EnterR
    \/ RO_Read
    \/ RO_ExitR

SpecReopen == InitReopen /\ [][NextReopen]_vars

(* Read the first symbol right after opening, read on, reset once or more,  *)
(* read a symbol again: a list of any content, or an existing file in "r".  *)
(* out collects everything read before the resets.                          *)
InitResetFirst ==
    /\ FreshStream
    /\ kind \in {"list", "text"}
    /\ IF kind = "list"
       THEN input_list \in SeqsUpTo(ListSymbols, MaxLen) /\ NoFile
       ELSE /\ input_list = << >>
            /\ permissions = "r"
            /\ file_exists = TRUE
            /\ file_data \in SeqsUpTo(Chars, MaxLen)
    /\ data_gt = << >>
    /\ pc = "enter"

RF_Enter ==
    /\ pc = "enter"
    /\ Call_enter(FALSE)
    /\ pc' = "first"
    /\ UNCHANGED <<data_gt, out>>

RF_First ==
    /\ pc = "first"
    /\ Call_get_symbol
    /\ out' = <<ret'.sym>>
    /\ pc' = "reads"
    /\ UNCHANGED data_gt

RF_ReadSymbol ==
    /\ pc = "reads"
    /\ Call_get_symbol
    /\ out' = IF ret'.sym = NoneVal THEN out ELSE Append(out, ret'.sym)
    /\ UNCHANGED <<pc, data_gt>>

RF_ReadBlock ==
    /\ pc = "reads"
    /\ \E n \in BlockSizes : Call_get_block(n)
    /\ out' = out \o ret'.blk
    /\ UNCHANGED <<pc, data_gt>>

RF_Reset ==
    /\ pc \in {"reads", "resets"}
    /\ Call_reset
    /\ pc' = "resets"
    /\ UNCHANGED <<data_gt, out>>

RF_Again ==
    /\ pc = "resets"
    /\ Call_get_symbol
    /\ pc' = "done"
    /\ UNCHANGED <<data_gt, out>>

RF_Exit ==
    /\ pc = "done"
    /\ Call_exit
    /\ pc' = "exited"
    /\ UNCHANGED <<data_gt, out>>

NextResetFirst ==
    \/ RF_Enter
    \/ RF_First
    \/ RF_ReadSymbol
    \/ RF_ReadBlock
    \/ RF_Reset
    \/ RF_Again
    \/ RF_Exit

SpecResetFirst == InitResetFirst /\ [][NextResetFirst]_vars

(* C3: in the round trip, reading after the reset ends with the sentinel    *)
(* and the blocks read, concatenated, are exactly the symbols written, in   *)
(* order, on either backend.                                                *)
C3_RoundTrip ==
    pc = "done" => (ret.kind = "none" /\ out = data_gt)

(* C4: after a "w" scope that wrote S with write_block, get_block(n),       *)
(* n >= 1, in an "r" scope of a new instance on the same path returns a     *)
(* block holding the first min(n, |S|) characters of S, in order.           *)
C4_ReopenReadsPrefix ==
    pc = "r_exit" =>
        IF data_gt = << >> THEN ret.kind = "none"
        ELSE ret.kind = "block" /\ ret.blk = Prefix(data_gt, ret.n)

(* C5: after the reads and one or more resets, get_symbol returns the same  *)
(* symbol as the get_symbol made right after opening.                       *)
C5_ResetRestoresFirst ==
    pc = "done" => (ret.op = "get_symbol" /\ ret.kind = "sym" /\ ret.sym = out[1])

(* C5 witness: the scenario ended after at least two symbols were read      *)
(* before the resets, and the symbol read after them is the first one.      *)
C5_Witness ==
    /\ pc = "done"
    /\ Len(out) >= 3
    /\ out[1] # out[2]
    /\ ret.sym = out[1]

---------------------------------------------------------------------------
(* Properties of the stream under arbitrary use (Spec).  A step is the     *)
(* call named by ret'.op; the unprimed variables are the state it found.   *)

Remaining == Len(Backing(BS)) - Cursor(BS)
AtEnd == Cursor(BS) >= Len(Backing(BS))
DataOps == {"get_symbol", "write_symbol", "get_block", "write_block", "reset"}
DataUnchanged == UNCHANGED <<input_list, current_ind, file_data, file_obj>>

(* C1: on an open stream with r symbols between the cursor and the end of   *)
(* the backing sequence, every get_block(n), n >= 1, that returns, returns  *)
(* a block of exactly min(n, r) symbols when r > 0 and the sentinel when    *)
(* r = 0; never a block of size 0.                                          *)
C1_BlockSizeIsMin ==
    [][(scope = "Open" /\ ret'.op = "get_block" /\ ret'.n >= 1 /\ ret'.kind # "raise") =>
          IF Remaining > 0
          THEN ret'.kind = "block" /\ Len(ret'.blk) = Min(ret'.n, Remaining)
          ELSE ret'.kind = "none"]_vars

(* C2: on an open stream a get_symbol that returns, returns the sentinel    *)
(* exactly when the cursor is at the end of the backing sequence/file, and  *)
(* otherwise returns the symbol at the cursor, whatever its value; also     *)
(* after interleaved writes.                                                *)
C2_SentinelIffAtEnd ==
    [][(scope = "Open" /\ ret'.op = "get_symbol" /\ ret'.kind = "sym") =>
          /\ (ret'.sym = NoneVal) <=> AtEnd
          /\ ~AtEnd => ret'.sym = Backing(BS)[Cursor(BS) + 1]]_vars

(* C6: on a ListDataStream, write_symbol(s) leaves the cursor where it was, *)
(* leaves every element below the old length unchanged and makes the list   *)
(* the old list with s appended; it never overwrites at the cursor.         *)
C6_ListWriteAppends ==
    [][(kind = "list" /\ ret'.op = "write_symbol") =>
          /\ current_ind' = current_ind
          /\ Len(input_list') = Len(input_list) + 1
          /\ \A i \in 1..Len(input_list) : input_list'[i] = input_list[i]
          /\ input_list'[Len(input_list) + 1] = ret'.sym]_vars

(* C6 witness: a symbol was written with the cursor advanced into the list, *)
(* at least one symbol still unread behind the write.                       *)
C6_Witness ==
    /\ kind = "list"
    /\ ret.op = "write_symbol"
    /\ current_ind > 0
    /\ current_ind + 1 < Len(input_list)

C8_Original ==
    [][(scope # "Open" /\ ret'.op \in DataOps) =>
          ret'.kind = "raise" /\ DataUnchanged]_vars

(* a call that uses the stream: every data operation but get_block(0) and   *)
(* the write_block of an empty block, whose loops run no iteration          *)
UsesStream(r) ==
    /\ r.op \in DataOps
    /\ r.op = "get_block" => r.n >= 1
    /\ r.op = "write_block" => r.blk # << >>

(* C8, amended: on a file-backed stream, a data operation that uses the     *)
(* stream, called while Unopened or Closed, fails (AttributeError before    *)
(* the first scope entry, ValueError after a scope exit) and does not read, *)
(* write or move the cursor; get_block(0) and write_block of an empty block *)
(* return normally and change nothing; on a ListDataStream no data          *)
(* operation fails, in any of the three places.                             *)
C8_Amended ==
    [][/\ (kind = "text" /\ scope # "Open" /\ UsesStream(ret')) =>
             /\ ret'.kind = "raise"
             /\ ret'.err = IF file_obj.st = "unset" THEN "AttributeError" ELSE "ValueError"
             /\ DataUnchanged
       /\ (kind = "text" /\ scope # "Open" /\ ret'.op \in DataOps /\ ~UsesStream(ret')) =>
             ret'.kind # "raise" /\ DataUnchanged
       /\ (kind = "list" /\ ret'.op \in DataOps) => ret'.kind # "raise"]_vars

(* C8 witness: a read on a file-backed stream after its scope exit failed,  *)
(* with symbols in the file.                                                *)
C8_Witness ==
    /\ kind = "text"
    /\ scope = "Closed"
    /\ permissions = "r"
    /\ ret.op \in {"get_symbol", "get_block"}
    /\ ret.kind = "raise"
    /\ ret.err = "ValueError"
    /\ Len(file_data) > 0

(* C9, as claimed: once Closed, an instance never comes back to Open and    *)
(* never acquires a handle again, whatever is called on it (Construct makes *)
(* another instance).                                                       *)
C9_Original ==
    [][(scope = "Closed" /\ ret'.op # "construct") =>
          scope' = "Closed" /\ open_handles' = open_handles]_vars

(* C9, amended: a Closed instance stays Closed, with its handle closed and  *)
(* no handle acquired, under every data operation; only a further scope     *)
(* entry on the same instance changes that: it succeeds like the first one, *)
(* brings the instance back to Open and, on a file-backed stream, opens the *)
(* path again.                                                              *)
C9_Amended ==
    [][/\ (scope = "Closed" /\ ret'.op \in DataOps) =>
             /\ scope' = "Closed"
             /\ open_handles' = open_handles
             /\ file_obj'.st = file_obj.st
       /\ (scope = "Closed" /\ ret'.op = "enter" /\ ret'.kind = "ok") =>
             /\ scope' = "Open"
             /\ kind = "text" => (open_handles' = open_handles + 1 /\ file_obj'.st = "open")
       /\ (scope = "Closed" /\ ret'.op = "enter" /\ ret'.kind = "raise") =>
             scope' = "Closed" /\ open_handles' = open_handles]_vars

(* C9 witness: a data operation was called on a Closed file-backed          *)
(* instance, which is still Closed with its handle closed.                  *)
C9_Witness ==
    /\ kind = "text"
    /\ scope = "Closed"
    /\ file_obj.st = "closed"
    /\ ret.op \in DataOps
    /\ ret.kind = "raise"

(* C10: get_block(0) returns the sentinel, calls get_symbol not once and    *)
(* leaves the cursor and the backing sequence as they were, whether or not  *)
(* symbols remain.                                                          *)
C10_BlockSizeZero ==
    [][(ret'.op = "get_block" /\ ret'.n = 0) =>
          ret'.kind = "none" /\ ret'.calls = 0 /\ DataUnchanged]_vars

(* C10 witness: get_block(0) answered the sentinel on an open stream with   *)
(* symbols remaining.                                                       *)
C10_Witness ==
    /\ scope = "Open"
    /\ ret.op = "get_block"
    /\ ret.n = 0
    /\ ret.kind = "none"
    /\ Remaining > 0
    /\ kind = "text" => permissions = "r"

C12_Original ==
    (kind = "uint8" /\ ret.op # "init") =>
        (ret.kind = "raise" /\ ret.err = "NotImplementedError")

(* C12, amended: the byte-oriented backend is declared but cannot be        *)
(* instantiated: every construction fails with TypeError, so there is never *)
(* an instance on which get_symbol, write_symbol, get_block or write_block  *)
(* could be invoked, no scope is entered, no handle is opened and the file  *)
(* is not touched; it never behaves like the text backend or another one.   *)
C12_Amended ==
    kind = "uint8" =>
        /\ scope = "NoInstance"
        /\ ret = NotInstantiated
        /\ file_obj = NoHandle
        /\ open_handles = 0
        /\ ~ENABLED GetSymbol
        /\ ~ENABLED WriteSymbol
        /\ ~ENABLED GetBlock
        /\ ~ENABLED WriteBlock

(* C12 witness: the construction of the byte-oriented backend on an         *)
(* existing, non-empty file failed with TypeError.                          *)
C12_Witness ==
    /\ kind = "uint8"
    /\ ret.op = "construct"
    /\ ret.kind = "raise"
    /\ ret.err = "TypeError"
    /\ file_exists
    /\ Len(file_data) > 0

Max(a, b) == IF a > b THEN a ELSE b

(* the backing store and the cursor after the symbols of w were written, in *)
(* order, one behind the other: at the tail of a list and of a file in      *)
(* append mode, from the handle's position on in write mode                 *)
AfterWriting(bs, w) ==
    IF bs.k = "list" THEN [bs EXCEPT !.list = bs.list \o w]
    ELSE IF w = << >> THEN bs
    ELSE IF bs.perm = "a"
    THEN [bs EXCEPT !.data = bs.data \o w, !.pos = Len(bs.data) + Len(w)]
    ELSE [bs EXCEPT !.data = [i \in 1..Max(Len(bs.data), bs.pos + Len(w)) |->
                                 IF i > bs.pos /\ i <= bs.pos + Len(w)
                                 THEN w[i - bs.pos] ELSE bs.data[i]],
                    !.pos = bs.pos + Len(w)]

(* C13: write_block(b) calls write_symbol once per symbol of b, in order;   *)
(* if the write of the k-th symbol fails, the failure reaches the caller,   *)
(* exactly the first k-1 symbols are written and stay, and no later symbol  *)
(* is tried; on a ListDataStream it never fails and the list afterwards is  *)
(* the old list followed by b's symbols.                                    *)
C13_WriteBlockPerSymbol ==
    [][ret'.op = "write_block" =>
        LET b == ret'.blk
            e == AfterWriting(BS, SubSeq(b, 1, ret'.n))
        IN  /\ ret'.kind = "ok" => (ret'.n = Len(b) /\ ret'.calls = Len(b))
            /\ ret'.kind = "raise" =>
                  (ret'.n < Len(b) /\ ret'.calls = ret'.n + 1 /\ ret'.err # NoErr)
            /\ ret'.kind \in {"ok", "raise"}
            /\ input_list' = e.list
            /\ current_ind' = e.ind
            /\ file_data' = e.data
            /\ file_obj' = [st |-> e.st, pos |-> e.pos]
            /\ kind = "list" =>
                  (ret'.kind = "ok" /\ input_list' = input_list \o b)]_vars

(* C13 witness: a write_block on an open file was stopped by the failing    *)
(* write of a symbol that is neither its first nor its last one.            *)
C13_Witness ==
    /\ kind = "text"
    /\ scope = "Open"
    /\ ret.op = "write_block"
    /\ ret.kind = "raise"
    /\ ret.err = "OSError"
    /\ ret.n >= 1
    /\ ret.calls = ret.n + 1
    /\ ret.calls < Len(ret.blk)

(* C14: reset on an open stream sets the cursor to the start and changes   *)
(* nothing else: the stream stays Open, the same handle stays open (none is *)
(* released or acquired) and the backing sequence/file keeps its contents.  *)
C14_ResetOnlyRewinds ==
    [][(scope = "Open" /\ ret'.op = "reset") =>
          /\ ret'.kind = "ok"
          /\ current_ind' = 0
          /\ file_obj'.pos = 0
          /\ file_obj'.st = file_obj.st
          /\ scope' = "Open"
          /\ open_handles' = open_handles
          /\ UNCHANGED <<kind, input_list, permissions, file_exists, file_data>>]_vars

(* C14 witness: an open write-mode file that holds symbols written in this  *)
(* scope was reset: the position is 0 and the symbols are still there.      *)
C14_Witness ==
    /\ kind = "text"
    /\ scope = "Open"
    /\ permissions = "w"
    /\ ret.op = "reset"
    /\ ret.kind = "ok"
    /\ file_obj = [st |-> "open", pos |-> 0]
    /\ open_handles = 1
    /\ Len(file_data) >= 2

(* C15: on a ListDataStream scope entry and scope exit never fail and       *)
(* change neither the cursor nor the list, which is the caller's own list   *)
(* (a new instance over it finds it as it is); and the stream is usable     *)
(* from construction on: before any scope entry get_symbol reads at the     *)
(* cursor and write_symbol appends to the list.                             *)
C15_ListScopeNoOp ==
    [][kind = "list" =>
        /\ ret'.op \in {"enter", "exit"} =>
              /\ ret'.kind = "ok"
              /\ scope' = IF ret'.op = "enter" THEN "Open" ELSE "Closed"
              /\ UNCHANGED <<input_list, current_ind>>
        /\ ret'.op = "construct" => input_list' = input_list
        /\ (scope = "Unopened" /\ ret'.op = "get_symbol") =>
              /\ ret'.kind = "sym"
              /\ ret'.sym = IF current_ind < Len(input_list)
                            THEN input_list[current_ind + 1] ELSE NoneVal
        /\ (scope = "Unopened" /\ ret'.op = "write_symbol") =>
              /\ ret'.kind = "ok"
              /\ input_list' = Append(input_list, ret'.sym)]_vars

(* C15 witness: a scope was entered on a ListDataStream whose cursor had    *)
(* been advanced before the entry, and the cursor is still inside the list. *)
C15_Witness ==
    /\ kind = "list"
    /\ scope = "Open"
    /\ ret.op = "enter"
    /\ ret.kind = "ok"
    /\ current_ind > 0
    /\ current_ind < Len(input_list)

(* C16: on an open ListDataStream with cursor c, a get_block(n), n >= 1,    *)
(* that returns a block of size k returns the elements at c .. c+k-1, in    *)
(* order, and leaves the cursor at c+k; one that returns the sentinel       *)
(* leaves the cursor where it was.  (Then successive get_block calls skip   *)
(* and repeat nothing and their blocks concatenate to a prefix of the      *)
(* list.)                                                                   *)
C16_ConsumesWhatItReturns ==
    [][(kind = "list" /\ scope = "Open" /\ ret'.op = "get_block" /\ ret'.n >= 1) =>
          IF ret'.kind = "block"
          THEN /\ current_ind' = current_ind + Len(ret'.blk)
               /\ current_ind' <= Len(input_list)
               /\ ret'.blk = SubSeq(input_list, current_ind + 1, current_ind')
          ELSE ret'.kind = "none" /\ current_ind' = current_ind]_vars

(* C17: on a ListDataStream the cursor is always between 0 and the length   *)
(* of the list; no call but reset (on a new instance: its construction)     *)
(* moves the cursor back, and no call shortens the list.                    *)
C17_CursorBound ==
    /\ [](kind = "list" => current_ind \in 0..Len(input_list))
    /\ [][kind = "list" =>
            /\ ret'.op \notin {"reset", "construct"} => current_ind' >= current_ind
            /\ Len(input_list') >= Len(input_list)]_vars

(* C17 witness: the cursor of a ListDataStream stands at the end of a list  *)
(* of two or more symbols after a read found the list exhausted.            *)
C17_Witness ==
    /\ kind = "list"
    /\ ret.op = "get_symbol"
    /\ ret.sym = NoneVal
    /\ current_ind = Len(input_list)
    /\ Len(input_list) >= 2

(* C18: on an open stream, once a get_block(n), n >= 1, has returned the    *)
(* sentinel, a get_symbol or get_block(n), n >= 1, that follows with no     *)
(* write or reset in between returns the sentinel again and leaves the      *)
(* cursor where it was.                                                     *)
C18_EndIsStable ==
    [][(/\ scope = "Open"
        /\ ret.op = "get_block" /\ ret.n >= 1 /\ ret.kind = "none"
        /\ ret'.op \in {"get_symbol", "get_block"}
        /\ ret'.op = "get_block" => ret'.n >= 1) =>
          /\ IF ret'.op = "get_block" THEN ret'.kind = "none"
             ELSE ret'.kind = "sym" /\ ret'.sym = NoneVal
          /\ UNCHANGED <<current_ind, file_obj, input_list, file_data>>]_vars

=============================================================================
